---------------------------- MODULE Spec2Model ----------------------------
(***************************************************************************)
(* Model of the API client of the Grub distributor frontend                *)
(* (src/unnamed/part_005: the axios instance, its interceptors and the     *)
(* apiRequest wrapper).                                                    *)
(*                                                                         *)
(* JavaScript values are tagged records, so that every comparison TLC      *)
(* makes is between records:                                               *)
(*   [t |-> "undefined"], [t |-> "null"], [t |-> "boolean", b |-> ..],     *)
(*   [t |-> "number", n |-> ..], [t |-> "string", s |-> ..],               *)
(*   [t |-> "array", a |-> <<..>>], [t |-> "object", f |-> [key |-> ..]]   *)
(***************************************************************************)
EXTENDS Integers, Sequences, FiniteSets, TLC

(***************************************************************************)
(* Bounds of the model.                                                    *)
(***************************************************************************)
\* number of apiRequest calls one behaviour issues (also the last clock tick)
MaxRequests == 2
\* largest number of keys of a generated failure body
MaxBodyKeys == 2
\* AuthProvider and page requests issued in one behaviour of SpecSession
MaxSessionRequests == 3
\* cap on the failure count of one query or mutation
MaxFailures == 4

(***************************************************************************)
(* JavaScript values.                                                      *)
(***************************************************************************)
Undefined == [t |-> "undefined"]
Null == [t |-> "null"]
Bool(b) == [t |-> "boolean", b |-> b]
Num(n) == [t |-> "number", n |-> n]
Str(s) == [t |-> "string", s |-> s]
Arr(a) == [t |-> "array", a |-> a]
Obj(f) == [t |-> "object", f |-> f]
\* the object literal {}
EmptyObj == Obj([k \in {} |-> Undefined])

\* value !== undefined && value !== null, as a predicate on the model's values
Nullish(v) == v.t \in {"undefined", "null"}

\* ToBoolean: what `if (v)`, `!v` and `a || b` test
Truthy(v) ==
  CASE v.t = "undefined" -> FALSE
    [] v.t = "null" -> FALSE
    [] v.t = "boolean" -> v.b
    [] v.t = "number" -> v.n # 0
    [] v.t = "string" -> v.s # ""
    [] OTHER -> TRUE

\* typeof v (arrays and null are "object")
TypeOf(v) ==
  CASE v.t = "array" -> "object"
    [] v.t = "null" -> "object"
    [] OTHER -> v.t

\* `k in v` for a v that is an object or an array (no model array has own keys)
HasKey(v, k) == v.t = "object" /\ k \in DOMAIN v.f

\* v.k for a non-nullish v: own property of an object, undefined otherwise
Get(v, k) == IF HasKey(v, k) THEN v.f[k] ELSE Undefined

\* v?.k
OptGet(v, k) == IF Nullish(v) THEN Undefined ELSE Get(v, k)

\* a || b
Or(a, b) == IF Truthy(a) THEN a ELSE b

Digits == <<"0", "1", "2", "3", "4", "5", "6", "7", "8", "9">>

RECURSIVE NatToString(_)
\* Number.prototype.toString for a natural number
NatToString(n) ==
  IF n < 10 THEN Digits[n + 1]
  ELSE NatToString(n \div 10) \o Digits[(n % 10) + 1]

RECURSIVE Join(_)
\* forward declaration: Array.prototype.join(",") over the elements' JsToString

\* ToString, as a template literal `${v}` applies it
JsToString(v) ==
  CASE v.t = "undefined" -> "undefined"
    [] v.t = "null" -> "null"
    [] v.t = "boolean" -> IF v.b THEN "true" ELSE "false"
    [] v.t = "number" -> IF v.n < 0 THEN "-" \o NatToString(0 - v.n) ELSE NatToString(v.n)
    [] v.t = "string" -> v.s
    [] v.t = "array" -> Join(v.a)
    [] OTHER -> "[object Object]"

Join(a) ==
  IF a = <<>> THEN ""
  ELSE IF Len(a) = 1 THEN (IF Nullish(a[1]) THEN "" ELSE JsToString(a[1]))
  ELSE (IF Nullish(a[1]) THEN "" ELSE JsToString(a[1])) \o "," \o Join(Tail(a))

\* String.prototype.includes on two strings
Includes(s, sub) ==
  \E i \in 1..(Len(s) - Len(sub) + 1) : SubSeq(s, i, i + Len(sub) - 1) = sub


\* the leading decimal digits of s, as parseInt(s) reads them; -1 stands for NaN
ParseInt(s) ==
  LET IsDigit(c) == \E d \in 1..10 : Digits[d] = c
      DigitOf(c) == (CHOOSE d \in 1..10 : Digits[d] = c) - 1
      n == IF \E i \in 1..Len(s) : ~IsDigit(SubSeq(s, i, i))
           THEN (CHOOSE i \in 1..Len(s) :
                   /\ ~IsDigit(SubSeq(s, i, i))
                   /\ \A j \in 1..(i - 1) : IsDigit(SubSeq(s, j, j))) - 1
           ELSE Len(s)
      Value[i \in 0..n] ==
        IF i = 0 THEN 0 ELSE Value[i - 1] * 10 + DigitOf(SubSeq(s, i, i))
  IN IF n = 0 THEN -1 ELSE Value[n]

\* two decimal digits
Pad2(n) == IF n < 10 THEN "0" \o NatToString(n) ELSE NatToString(n)

\* new Date(ms).toLocaleTimeString(), in a 24-hour UTC locale; ms < 0 is NaN
LocaleTimeString(ms) ==
  IF ms < 0 THEN "Invalid Date"
  ELSE LET sec == (ms \div 1000) % 86400
       IN Pad2(sec \div 3600) \o ":" \o Pad2((sec % 3600) \div 60) \o ":" \o Pad2(sec % 60)

\* new Date().toISOString() when the clock reads `now` seconds
ToISOString(now) ==
  "2026-01-01T" \o Pad2((now \div 3600) % 24) \o ":" \o Pad2((now % 3600) \div 60)
    \o ":" \o Pad2(now % 60) \o ".000Z"

\* new Error(msg): message is an own property, name comes from the prototype
NewError(msg) == Obj([name |-> Str("Error"), message |-> Str(msg)])

\* the TypeError of reading property k of null or undefined
NullReadError(v, k) ==
  Obj([name |-> Str("TypeError"),
       message |-> Str("Cannot read properties of " \o JsToString(v)
                         \o " (reading '" \o k \o "')")])

\* the order in which the properties of a stored user are enumerated
JsonKeyOrder == <<"id", "email", "name", "role">>

RECURSIVE SeqOf(_)
\* the elements of a finite set, one after the other
SeqOf(S) ==
  IF S = {} THEN <<>>
  ELSE LET x == CHOOSE y \in S : TRUE IN <<x>> \o SeqOf(S \ {x})

\* the own keys of an object whose value JSON.stringify writes, in order
JsonKeys(v) ==
  LET written == {k \in DOMAIN v.f : v.f[k].t # "undefined"}
      listed == {JsonKeyOrder[i] : i \in DOMAIN JsonKeyOrder}
  IN SelectSeq(JsonKeyOrder, LAMBDA k : k \in written) \o SeqOf(written \ listed)

RECURSIVE JsonText(_)
RECURSIVE JsonMembers(_, _)
RECURSIVE JsonItems(_)
\* the JSON text of a value that is not undefined
JsonText(v) ==
  CASE v.t = "null" -> "null"
    [] v.t = "undefined" -> "null"
    [] v.t = "boolean" -> IF v.b THEN "true" ELSE "false"
    [] v.t = "number" -> JsToString(v)
    [] v.t = "string" -> "\"" \o v.s \o "\""
    [] v.t = "array" -> "[" \o JsonItems(v.a) \o "]"
    [] OTHER -> "{" \o JsonMembers(v, JsonKeys(v)) \o "}"

JsonMembers(v, keys) ==
  IF keys = <<>> THEN ""
  ELSE "\"" \o Head(keys) \o "\":" \o JsonText(v.f[Head(keys)])
         \o (IF Len(keys) = 1 THEN "" ELSE "," \o JsonMembers(v, Tail(keys)))

JsonItems(a) ==
  IF a = <<>> THEN ""
  ELSE JsonText(Head(a)) \o (IF Len(a) = 1 THEN "" ELSE "," \o JsonItems(Tail(a)))

\* JSON.stringify(v): undefined for undefined, else the JSON text
JsonStringify(v) == IF v.t = "undefined" THEN Undefined ELSE Str(JsonText(v))

(***************************************************************************)
(* API configuration.                                                      *)
(***************************************************************************)
API_BASE_URL == "http://localhost:8520"
API_KEY == "asdfghjklqweertyuiopzxcvbnmasdfgtre"
API_TIMEOUT == 30000


(***************************************************************************)
(* apiRequest: how one call settles.                                       *)
(***************************************************************************)
Resolve(v) == [kind |-> "resolve", value |-> v]
Reject(v) == [kind |-> "reject", value |-> v]
\* a throw inside the try block, which the catch block of the same call receives
Throw(v) == [kind |-> "throw", value |-> v]

\* responseData && typeof responseData === "object" && "success" in responseData
IsEnvelope(responseData) ==
  /\ Truthy(responseData)
  /\ TypeOf(responseData) = "object"
  /\ HasKey(responseData, "success")

\* the ApiError thrown for an envelope whose success is falsy
EnvelopeError(apiResponse, now) ==
  Obj([message |-> Or(Get(apiResponse, "message"), Str("API request failed")),
       code |-> Get(apiResponse, "error"),
       timestamp |-> Str(ToISOString(now))])

\* EnvelopePayload with `if (apiResponse.data)` for `!== undefined`
EnvelopePayload_TruthyData(apiResponse) ==
  IF Truthy(Get(apiResponse, "data"))
  THEN Get(apiResponse, "data")
  ELSE Bool(TRUE)

\* EnvelopePayload without the `true` sentinel: apiResponse.data as it is
EnvelopePayload_NoSentinel(apiResponse) == Get(apiResponse, "data")

\* what an envelope whose success is truthy returns
EnvelopePayload(apiResponse) ==
  IF Get(apiResponse, "data") # Undefined
  THEN Get(apiResponse, "data")
  ELSE Bool(TRUE)

\* tryBlock with `if (responseData)` for the test against null and undefined
tryBlock_TruthyBody(response, now) ==
  LET responseData == Get(response, "data")
  IN IF IsEnvelope(responseData)
     THEN IF ~Truthy(Get(responseData, "success"))
          THEN Throw(EnvelopeError(responseData, now))
          ELSE Resolve(EnvelopePayload(responseData))
     ELSE IF Truthy(responseData)
          THEN Resolve(responseData)
          ELSE Resolve(Bool(TRUE))

\* tryBlock that returns an empty body as it is
tryBlock_EmptyBody(response, now) ==
  LET responseData == Get(response, "data")
  IN IF IsEnvelope(responseData)
     THEN IF ~Truthy(Get(responseData, "success"))
          THEN Throw(EnvelopeError(responseData, now))
          ELSE Resolve(EnvelopePayload(responseData))
     ELSE Resolve(responseData)

\* the try block, after `await apiClient.request(config)` has resolved
tryBlock(response, now) ==
  LET responseData == Get(response, "data")
  IN IF IsEnvelope(responseData)
     THEN IF ~Truthy(Get(responseData, "success"))
          THEN Throw(EnvelopeError(responseData, now))
          ELSE Resolve(EnvelopePayload(responseData))
     ELSE IF responseData # Null /\ responseData # Undefined
          THEN Resolve(responseData)
          ELSE Resolve(Bool(TRUE))

\* IsServiceUnavailable with `>= 500` for `=== 503`
IsServiceUnavailable_AnyServerError(error) ==
  LET status == OptGet(Get(error, "response"), "status")
  IN status.t = "number" /\ status.n >= 500

\* error.response?.status === 503
IsServiceUnavailable(error) ==
  OptGet(Get(error, "response"), "status") = Num(503)

\* the 503 branch of the catch block
degradedResponse(error) ==
  LET responseData == OptGet(Get(error, "response"), "data")
  IN IF Truthy(responseData)
     THEN IF Truthy(Get(responseData, "success")) /\ Get(responseData, "data") # Undefined
          THEN Resolve(Get(responseData, "data"))
          ELSE IF responseData # Null /\ responseData # Undefined
               THEN Resolve(responseData)
               ELSE Reject(NewError("Service temporarily unavailable"))
     ELSE Reject(NewError("Service temporarily unavailable"))

\* errorMessage with responseData.error consulted before responseData.message
errorMessage_ErrorFirst(responseData, error) ==
  IF TypeOf(responseData) = "string" THEN responseData
  ELSE IF TypeOf(responseData) = "object"
  THEN Or(Get(responseData, "error"),
       Or(Get(responseData, "message"),
       Or(Get(responseData, "errorMessage"),
       Or(Get(responseData, "msg"),
       Or(Get(error, "message"), Str("API request failed"))))))
  ELSE Str("API request failed")

\* errorMessage without the branch for a string body
errorMessage_ObjectOnly(responseData, error) ==
  IF TypeOf(responseData) = "object"
  THEN Or(Get(responseData, "message"),
       Or(Get(responseData, "error"),
       Or(Get(responseData, "errorMessage"),
       Or(Get(responseData, "msg"),
       Or(Get(error, "message"), Str("API request failed"))))))
  ELSE Or(Get(error, "message"), Str("API request failed"))

\* errorMessage, for a truthy error.response.data
errorMessage(responseData, error) ==
  IF TypeOf(responseData) = "string" THEN responseData
  ELSE IF TypeOf(responseData) = "object"
  THEN Or(Get(responseData, "message"),
       Or(Get(responseData, "error"),
       Or(Get(responseData, "errorMessage"),
       Or(Get(responseData, "msg"),
       Or(Get(error, "message"), Str("API request failed"))))))
  ELSE Str("API request failed")

\* errorCode, for a truthy error.response.data
errorCode(responseData) ==
  IF TypeOf(responseData) = "string" THEN Undefined
  ELSE IF TypeOf(responseData) = "object"
  THEN Or(Get(responseData, "code"),
       Or(Get(responseData, "errorCode"), Get(responseData, "statusCode")))
  ELSE Undefined

\* IsNetworkError with ECONNREFUSED among the codes of the first check
IsNetworkError_WithRefused(error) ==
  Get(error, "code") \in {Str("ERR_NETWORK"), Str("NETWORK_ERROR"), Str("ECONNABORTED"),
                          Str("ECONNREFUSED")}

\* the first network check: ERR_NETWORK, NETWORK_ERROR or ECONNABORTED
IsNetworkError(error) ==
  Get(error, "code") \in {Str("ERR_NETWORK"), Str("NETWORK_ERROR"), Str("ECONNABORTED")}

\* error.code === "ECONNABORTED" && error.message.includes("timeout")
\* (includes on a message that is not a string does not arise: the branch above
\* has already thrown for every ECONNABORTED)
IsTimeout(error) ==
  /\ Get(error, "code") = Str("ECONNABORTED")
  /\ Get(error, "message").t = "string"
  /\ Includes(Get(error, "message").s, "timeout")

NetworkErrorMessage(error) ==
  "Network error: " \o JsToString(Get(error, "message"))
    \o ". Please check if the API server is running and CORS is configured."

ConnectionRefusedMessage ==
  "Connection refused: Cannot connect to API server at " \o API_BASE_URL
    \o ". Please check if the server is running."

TimeoutMessage == "Request timeout: API server took too long to respond."

\* the catch block of apiRequest; reading error.response of null or undefined
\* throws a TypeError out of the block
catchBlock(error, now) ==
  IF Nullish(error) THEN Reject(NullReadError(error, "response"))
  ELSE IF IsServiceUnavailable(error) THEN degradedResponse(error)
  ELSE IF Truthy(OptGet(Get(error, "response"), "data"))
  THEN LET responseData == Get(Get(error, "response"), "data")
       IN Reject(Obj([message |-> errorMessage(responseData, error),
                      code |-> errorCode(responseData),
                      timestamp |-> Str(ToISOString(now))]))
  ELSE IF IsNetworkError(error) THEN Reject(NewError(NetworkErrorMessage(error)))
  ELSE IF Get(error, "code") = Str("ECONNREFUSED")
  THEN Reject(NewError(ConnectionRefusedMessage))
  ELSE IF IsTimeout(error) THEN Reject(NewError(TimeoutMessage))
  ELSE IF Truthy(Get(error, "message")) /\ Truthy(Get(error, "timestamp"))
  THEN Reject(error)
  ELSE Reject(Obj([message |-> Or(Get(error, "message"),
                                  Str("An unexpected error occurred")),
                   timestamp |-> Str(ToISOString(now))]))

\* apiRequest once apiClient.request has settled: settled.kind is "fulfilled"
\* (settled.value the response) or "rejected" (settled.value the error)
apiRequest(settled, now) ==
  IF settled.kind = "fulfilled"
  THEN LET r == tryBlock(settled.value, now)
       IN IF r.kind = "throw" THEN catchBlock(r.value, now) ELSE r
  ELSE catchBlock(settled.value, now)


(***************************************************************************)
(* State.                                                                  *)
(***************************************************************************)
VARIABLES
  isBrowser,  \* typeof window !== "undefined"
  storage,    \* localStorage: key -> stored string, Null when the key is absent
  location,   \* window.location.href
  deviceId,   \* the module variable deviceId
  now,        \* the clock, in seconds
  requests,   \* number of apiRequest calls issued so far
  pc,         \* position of the current apiRequest call: idle, pending, settled
  sent,       \* the config the transport holds, Null when no request is in flight
  outcome,    \* how apiClient.request settled, as the transport produced it
  result,     \* how apiRequest settled
  caller,     \* who awaits the call: page, login, register, logout, query, mutation
  user,       \* AuthProvider state: user
  token,      \* AuthProvider state: token
  isLoading,  \* AuthProvider state: isLoading
  failureCount, \* failures the retryer of the query or mutation has counted
  flights     \* the calls of AuthProvider that may overlap: where each one is

vars == <<isBrowser, storage, location, deviceId, now, requests, pc, sent, outcome, result,
          caller, user, token, isLoading, failureCount, flights>>

\* the asynchronous functions of AuthProvider that may overlap (register runs
\* the code of login)
AuthOps == {"initAuth", "login", "logout", "refreshAuth"}

\* a call: pc is idle, pending (awaiting its API request), loggingOut (refreshAuth
\* awaiting the logout it started), resolved or rejected; api is how its API
\* request settled; overtaken records that a logout completed while the call
\* was in flight
Flight(p, a, o) == [pc |-> p, api |-> a, overtaken |-> o]
NoFlights == [op \in AuthOps |-> Flight("idle", "none", FALSE)]


None == [kind |-> "none", value |-> Undefined]

\* the keys under which AuthProvider persists the session
AUTH_TOKEN_KEY == "123456"
USER_DATA_KEY == "grub_user"

StorageKeys == {"grub_device_id", "grub_auth_token", AUTH_TOKEN_KEY, USER_DATA_KEY}

\* a user as the backend returns it
StoredUser == Obj([id |-> Str("u1"), role |-> Str("customer")])

\* Math.random().toString(36).substr(2, 9)
RandomSuffixes == {"k3x9q7a1b", "p0q2z8c4d"}

\* own properties of target overwritten by those of source
Assign(target, source) ==
  Obj([k \in DOMAIN target.f \cup DOMAIN source.f |->
         IF k \in DOMAIN source.f THEN source.f[k] ELSE target.f[k]])

(***************************************************************************)
(* Device ID management.                                                   *)
(***************************************************************************)
\* generateDeviceId: the identifier and the storage it leaves
generateDeviceId(store, browser, clock, rnd) ==
  IF browser
  THEN IF Truthy(store["grub_device_id"])
       THEN [id |-> store["grub_device_id"], storage |-> store]
       ELSE LET newDeviceId == Str("web_" \o NatToString(clock) \o "_" \o rnd)
            IN [id |-> newDeviceId,
                storage |-> [store EXCEPT !["grub_device_id"] = newDeviceId]]
  ELSE [id |-> Str("ssr_" \o NatToString(clock) \o "_" \o rnd), storage |-> store]

\* getDeviceId without the module variable: generateDeviceId on every call
getDeviceId_Uncached(current, store, browser, clock, rnd) ==
  LET g == generateDeviceId(store, browser, clock, rnd)
  IN [id |-> g.id, deviceId |-> g.id, storage |-> g.storage]

\* getDeviceId: the identifier, the module variable and the storage it leaves
getDeviceId(current, store, browser, clock, rnd) ==
  IF ~Truthy(current)
  THEN LET g == generateDeviceId(store, browser, clock, rnd)
       IN [id |-> g.id, deviceId |-> g.id, storage |-> g.storage]
  ELSE [id |-> current, deviceId |-> current, storage |-> store]

(***************************************************************************)
(* Interceptors of the axios instance.                                     *)
(***************************************************************************)
\* the headers axios.create sets on every request
DefaultHeaders == Obj([k \in {"Content-Type"} |-> Str("application/json")])

\* requestInterceptor that keeps the identifiers a caller has supplied
requestInterceptor_KeepCaller(headers, id, browser, clock, rnd) ==
  LET h0 == IF Nullish(headers) THEN EmptyObj ELSE headers
      h1 == Assign(Obj([k \in {"X-Device-ID"} |-> id]), h0)
      h2 == IF browser /\ Truthy(Str(API_KEY))
            THEN Assign(h1, Obj([Authorization |-> Str("Bearer " \o API_KEY)]))
            ELSE h1
  IN Assign(Obj([k \in {"X-Correlation-ID"} |->
                   Str("web_" \o NatToString(clock) \o "_" \o rnd)]), h2)

\* the headers the request interceptor leaves on the config
requestInterceptor(headers, id, browser, clock, rnd) ==
  LET h0 == IF Nullish(headers) THEN EmptyObj ELSE headers
      h1 == Assign(h0, Obj([k \in {"X-Device-ID"} |-> id]))
      h2 == IF browser /\ Truthy(Str(API_KEY))
            THEN Assign(h1, Obj([Authorization |-> Str("Bearer " \o API_KEY)]))
            ELSE h1
  IN Assign(h2, Obj([k \in {"X-Correlation-ID"} |->
                       Str("web_" \o NatToString(clock) \o "_" \o rnd)]))

\* the storage the response error interceptor leaves (401: auth entries removed)
responseErrorStorage(error, store, browser) ==
  IF ~Nullish(error) /\ OptGet(Get(error, "response"), "status") = Num(401) /\ browser
  THEN [store EXCEPT !["grub_auth_token"] = Null, !["grub_user"] = Null]
  ELSE store

\* the location the response error interceptor leaves (401: the login page)
responseErrorLocation(error, href, browser) ==
  IF ~Nullish(error) /\ OptGet(Get(error, "response"), "status") = Num(401) /\ browser
  THEN "/auth/login"
  ELSE href

\* the error the response error interceptor rejects with (429: message rewritten
\* when the response carries x-ratelimit-reset); reading error.response of null
\* or undefined rejects with the TypeError instead
responseErrorInterceptor(error) ==
  IF Nullish(error) THEN NullReadError(error, "response")
  ELSE IF OptGet(Get(error, "response"), "status") = Num(429)
  THEN LET resetTime == Get(Get(Get(error, "response"), "headers"), "x-ratelimit-reset")
       IN IF Truthy(resetTime) /\ error.t = "object"
          THEN LET n == ParseInt(JsToString(resetTime))
                   \* only the time of day reaches the message: whole days are
                   \* dropped before the multiplication
                   ms == IF n < 0 THEN -1 ELSE (n % 86400) * 1000
               IN Assign(error, Obj([message |->
                    Str("Rate limit exceeded. Try again at " \o LocaleTimeString(ms))]))
          ELSE error
  ELSE error


(***************************************************************************)
(* What the backend and the transport can produce.                         *)
(***************************************************************************)
\* marks a key that an object does not have
Absent == [t |-> "absent"]

\* the object with the keys of f that are not Absent
Pick(f) == Obj([k \in {x \in DOMAIN f : f[x] # Absent} |-> f[k]])

\* payloads carried in the data field of an envelope
DataValues ==
  { Undefined, Null, Bool(FALSE), Num(0), Str(""), Str("text"),
    Arr(<<Num(1), Num(2), Num(3)>>),
    Obj([id |-> Num(1), tags |-> Arr(<<Str("a")>>)]),
    Obj([success |-> Bool(TRUE), data |-> Num(1)]) }

EnvelopeMessages ==
  { Absent, Str(""), Str("Validation failed"), Obj([detail |-> Str("x")]) }

EnvelopeErrors ==
  { Absent, Str("INVALID_DATA"), Str("ERR_NETWORK"), Str("NETWORK_ERROR"),
    Str("ECONNABORTED"), Str("ECONNREFUSED") }

\* { success: truthy, data?, message? }
SuccessEnvelopes ==
  { Pick([success |-> sc, data |-> d, message |-> m]) :
      sc \in {Bool(TRUE), Num(1)},
      d \in DataValues \cup {Absent},
      m \in {Absent, Str("Created")} }

\* { success: falsy, message?, error? }
FailureEnvelopes ==
  { Pick([success |-> sc, message |-> m, error |-> e]) :
      sc \in {Bool(FALSE), Num(0)}, m \in EnvelopeMessages, e \in EnvelopeErrors }

\* bodies that are not envelopes
BareBodies ==
  { Undefined, Null, Bool(FALSE), Bool(TRUE), Num(0), Num(123), Str(""),
    Str("Internal server error"), Arr(<<>>), Arr(<<Num(1), Num(2), Num(3)>>),
    EmptyObj, Obj([status |-> Str("healthy"), uptime |-> Num(123)]) }

\* the fields the catch block reads from a failure body
ErrorKeys == {"message", "error", "errorMessage", "msg", "code", "errorCode", "statusCode"}

\* the i-th value a failure body may hold under key k: two falsy values, a text
\* that names its key, and an object
FieldValue(k, i) ==
  CASE i = 1 -> Str("")
    [] i = 2 -> Num(0)
    [] i = 3 -> Str(k \o " text")
    [] OTHER -> Obj([detail |-> Str(k)])

\* failure bodies with at most MaxBodyKeys of the ErrorKeys
GeneratedBodies ==
  UNION { { Obj([k \in S |-> FieldValue(k, c[k])]) : c \in [S -> 1..4] } :
            S \in {T \in SUBSET ErrorKeys : Cardinality(T) <= MaxBodyKeys} }

ResponseBodies == BareBodies \cup SuccessEnvelopes \cup FailureEnvelopes

\* the statuses at which the generated failure bodies are delivered (one 4xx and
\* one 5xx: the catch block treats every status other than 503 alike)
GeneratedStatuses == {400, 500}

\* the bodies delivered with an error status
ErrorBodies(status) ==
  BareBodies \cup SuccessEnvelopes \cup FailureEnvelopes
    \cup (IF status \in GeneratedStatuses THEN GeneratedBodies ELSE {})

SuccessStatuses == {200, 201}

ErrorStatuses == {400, 401, 429, 500, 503}

\* response headers: x-ratelimit-reset absent, a Unix time, or not a number
ResponseHeaders ==
  { EmptyObj,
    Obj([k \in {"x-ratelimit-reset"} |-> Str("1767229323")]),
    Obj([k \in {"x-ratelimit-reset"} |-> Str("soon")]) }

\* the response object axios builds
Response(status, data, headers) ==
  Obj([status |-> Num(status), data |-> data, headers |-> headers])

\* the error axios rejects with for a status outside 2xx
AxiosError(status, data, headers) ==
  Obj([name |-> Str("AxiosError"),
       message |-> Str("Request failed with status code " \o NatToString(status)),
       code |-> Str(IF status < 500 THEN "ERR_BAD_REQUEST" ELSE "ERR_BAD_RESPONSE"),
       response |-> Response(status, data, headers)])

\* the responses axios resolves with
HttpResponses ==
  { Response(status, body, EmptyObj) : status \in SuccessStatuses, body \in ResponseBodies }

\* the errors axios rejects with when a response arrived; only a 429 carries the
\* rate-limit header
HttpErrors ==
  UNION { { AxiosError(status, body, headers) :
              body \in ErrorBodies(status),
              headers \in IF status = 429 THEN ResponseHeaders ELSE {EmptyObj} } :
            status \in ErrorStatuses }

\* the errors axios rejects with when no response arrived
NetworkFailures ==
  { Obj([name |-> Str("AxiosError"), message |-> Str(f[1]), code |-> Str(f[2])]) :
      f \in { <<"Network Error", "ERR_NETWORK">>,
              <<"timeout of 30000ms exceeded", "ECONNABORTED">>,
              <<"Request aborted", "ECONNABORTED">>,
              <<"connect ECONNREFUSED 127.0.0.1:8520", "ECONNREFUSED">> } }

\* other values a rejected request can carry: primitives, objects with any of
\* message, code and timestamp (an ApiError raised earlier among them), and an
\* error that has a response but no message
ThrownValues ==
  { Null, Undefined, Str("boom") }
    \cup { Pick([message |-> m, code |-> c, timestamp |-> ts]) :
             m \in {Absent, Str(""), Str("boom"), Num(42)},
             c \in EnvelopeErrors \cup {Str("E_OTHER")},
             ts \in {Absent, Str(ToISOString(0))} }
    \cup { Obj([response |-> Response(500, d, EmptyObj)]) : d \in {EmptyObj, Num(1)} }

\* headers a caller passes in the config, merged over the defaults
CallerHeaders ==
  { Undefined,
    Obj([k \in {"X-Device-ID"} |-> Str("caller")]),
    Obj([k \in {"X-Device-ID", "X-Correlation-ID"} |-> Str("")]) }

(***************************************************************************)
(* Behaviour.                                                              *)
(***************************************************************************)
Init ==
  /\ isBrowser \in BOOLEAN
  /\ storage \in
       { [k \in StorageKeys |->
            CASE k = "grub_device_id" -> d
              [] k = AUTH_TOKEN_KEY -> IF a THEN Str("token-1") ELSE Null
              [] k = USER_DATA_KEY -> IF a THEN JsonStringify(StoredUser) ELSE Null
              [] OTHER -> Null] :
           d \in {Null, Str("web_0_stored")}, a \in BOOLEAN }
  /\ isBrowser \/ \A k \in StorageKeys : storage[k] = Null
  /\ location = "/"
  /\ deviceId = Null
  /\ now = 1
  /\ requests = 0
  /\ pc = "idle"
  /\ sent = Null
  /\ outcome = None
  /\ result = None
  /\ caller = "page"
  /\ user = Null
  /\ token = Null
  /\ isLoading = FALSE
  /\ failureCount = 0
  /\ flights = NoFlights

\* apiClient.request(config) up to the transport: the request interceptor
\* decorates the config and the transport takes it
Dispatch(headers, rndDevice, rndCorrelation) ==
  /\ LET g == getDeviceId(deviceId, storage, isBrowser, now, rndDevice)
     IN /\ deviceId' = g.deviceId
        /\ storage' = g.storage
        /\ sent' = Obj([headers |->
                          requestInterceptor(
                            IF Nullish(headers) THEN DefaultHeaders
                            ELSE Assign(DefaultHeaders, headers),
                            g.id, isBrowser, now, rndCorrelation)])
  /\ requests' = requests + 1
  /\ pc' = "pending"
  /\ UNCHANGED <<isBrowser, location>>

\* apiRequest(config) up to its await
Call(headers, rndDevice, rndCorrelation) ==
  /\ pc = "idle"
  /\ requests < MaxRequests
  /\ Dispatch(headers, rndDevice, rndCorrelation)
  /\ UNCHANGED <<now, outcome, result, caller, user, token, isLoading, failureCount, flights>>

\* the request settles with `settled` as the transport produced it; a rejection
\* passes the response error interceptor, then apiRequest runs to its end
Settle(settled) ==
  /\ now' = now + 1
  /\ outcome' = settled
  /\ IF settled.kind = "fulfilled"
     THEN /\ result' = apiRequest(settled, now')
          /\ UNCHANGED <<storage, location>>
     ELSE /\ result' = apiRequest([kind |-> "rejected",
                                   value |-> responseErrorInterceptor(settled.value)], now')
          /\ storage' = responseErrorStorage(settled.value, storage, isBrowser)
          /\ location' = responseErrorLocation(settled.value, location, isBrowser)
  /\ pc' = "settled"
  /\ sent' = Null
  /\ UNCHANGED <<isBrowser, deviceId, requests, caller, user, token, isLoading, failureCount, flights>>

\* the backend answers with a 2xx status
RespondOk ==
  /\ pc = "pending"
  /\ \E response \in HttpResponses : Settle([kind |-> "fulfilled", value |-> response])

\* the backend answers with a status outside 2xx
RespondError ==
  /\ pc = "pending"
  /\ \E error \in HttpErrors : Settle([kind |-> "rejected", value |-> error])

\* no response arrives: network failure, refused connection, timeout, abort
TransportFail ==
  /\ pc = "pending"
  /\ \E error \in NetworkFailures : Settle([kind |-> "rejected", value |-> error])

\* the request rejects with some other value
TransportThrow ==
  /\ pc = "pending"
  /\ \E error \in ThrownValues : Settle([kind |-> "rejected", value |-> error])

\* the caller has taken the settled call
Return ==
  /\ pc = "settled"
  /\ pc' = "idle"
  /\ outcome' = None
  /\ result' = None
  /\ UNCHANGED <<isBrowser, storage, location, deviceId, now, requests, sent,
                 caller, user, token, isLoading, failureCount, flights>>

Next ==
  \/ \E headers \in CallerHeaders, rd \in RandomSuffixes, rc \in RandomSuffixes :
       Call(headers, rd, rc)
  \/ RespondOk
  \/ RespondError
  \/ TransportFail
  \/ TransportThrow
  \/ Return

Spec == Init /\ [][Next]_vars


(***************************************************************************)
(* AuthProvider (src/src/lib/auth.tsx) over the API client.                *)
(***************************************************************************)
\* setAuthData: the storage it leaves; setItem stores the string of its value
setAuthData(store, browser, tok, usr) ==
  IF ~browser THEN store
  ELSE [store EXCEPT ![AUTH_TOKEN_KEY] = Str(JsToString(tok)),
                     ![USER_DATA_KEY] = Str(JsToString(JsonStringify(usr)))]

\* clearAuthData that removes the token and leaves the user record
clearAuthData_TokenOnly(store, browser) ==
  IF ~browser THEN store
  ELSE [store EXCEPT ![AUTH_TOKEN_KEY] = Null]

\* clearAuthData: the storage it leaves
clearAuthData(store, browser) ==
  IF ~browser THEN store
  ELSE [store EXCEPT ![AUTH_TOKEN_KEY] = Null, ![USER_DATA_KEY] = Null]

\* the payload of a successful login or registration
AuthPayload == Obj([token |-> Str("token-2"), user |-> StoredUser])

\* what the backend and the transport produce for the requests of a session
SessionOutcomes ==
  { [kind |-> "fulfilled", value |-> Response(200, body, EmptyObj)] :
      body \in { Obj([success |-> Bool(TRUE), data |-> AuthPayload]),
                 Obj([success |-> Bool(TRUE), message |-> Str("Created")]),
                 Obj([success |-> Bool(TRUE), data |-> Null]) } }
    \cup { [kind |-> "rejected", value |-> AxiosError(status, body, EmptyObj)] :
             status \in {401, 500},
             body \in { Undefined,
                        Obj([success |-> Bool(FALSE), message |-> Str("Validation failed"),
                             error |-> Str("INVALID_DATA")]) } }
    \cup { [kind |-> "rejected", value |-> error] :
             error \in {e \in NetworkFailures : Get(e, "code") = Str("ERR_NETWORK")} }

\* the page has loaded in a browser or on the server, initAuth has found no
\* stored session and has finished
SessionInit ==
  /\ isBrowser \in BOOLEAN
  /\ storage \in { [k \in StorageKeys |-> IF k = "grub_device_id" THEN d ELSE Null] :
                     d \in {Null, Str("web_0_stored")} }
  /\ isBrowser \/ \A k \in StorageKeys : storage[k] = Null
  /\ location = "/"
  /\ deviceId = Null
  /\ now = 1
  /\ requests = 0
  /\ pc = "idle"
  /\ sent = Null
  /\ outcome = None
  /\ result = None
  /\ caller = "page"
  /\ user = Null
  /\ token = Null
  /\ isLoading = FALSE
  /\ failureCount = 0
  /\ flights = NoFlights

\* a page issues a request through apiRequest
PageRequest(rndDevice, rndCorrelation) ==
  /\ pc = "idle"
  /\ requests < MaxSessionRequests
  /\ Dispatch(Undefined, rndDevice, rndCorrelation)
  /\ caller' = "page"
  /\ UNCHANGED <<now, outcome, result, user, token, isLoading, failureCount, flights>>

\* login, up to `await authApi.login(email, password)`
login(rndDevice, rndCorrelation) ==
  /\ pc = "idle"
  /\ isBrowser
  /\ requests < MaxSessionRequests
  /\ isLoading' = TRUE
  /\ Dispatch(Undefined, rndDevice, rndCorrelation)
  /\ caller' = "login"
  /\ UNCHANGED <<now, outcome, result, user, token, failureCount, flights>>

\* register, up to `await authApi.register(userData)`
register(rndDevice, rndCorrelation) ==
  /\ pc = "idle"
  /\ isBrowser
  /\ requests < MaxSessionRequests
  /\ isLoading' = TRUE
  /\ Dispatch(Undefined, rndDevice, rndCorrelation)
  /\ caller' = "register"
  /\ UNCHANGED <<now, outcome, result, user, token, failureCount, flights>>

\* logout, up to `await authApi.logout()`
logout(rndDevice, rndCorrelation) ==
  /\ pc = "idle"
  /\ isBrowser
  /\ requests < MaxSessionRequests
  /\ Dispatch(Undefined, rndDevice, rndCorrelation)
  /\ caller' = "logout"
  /\ UNCHANGED <<now, outcome, result, user, token, isLoading, failureCount, flights>>

\* the request of the session settles
SessionSettle ==
  /\ pc = "pending"
  /\ \E settled \in SessionOutcomes : Settle(settled)

\* the caller resumes after its await: login and register store the session of a
\* resolved call (reading response.token of null throws into the catch), logout
\* clears it whatever the call did, a page does nothing to the session
SessionReturn ==
  /\ pc = "settled"
  /\ pc' = "idle"
  /\ outcome' = None
  /\ result' = None
  /\ caller' = "page"
  /\ CASE caller \in {"login", "register"} ->
            /\ isLoading' = FALSE
            /\ IF result.kind = "resolve" /\ ~Nullish(result.value)
               THEN /\ token' = Get(result.value, "token")
                    /\ user' = Get(result.value, "user")
                    /\ storage' = setAuthData(storage, isBrowser,
                                              Get(result.value, "token"),
                                              Get(result.value, "user"))
               ELSE UNCHANGED <<token, user, storage>>
       [] caller = "logout" ->
            /\ token' = Null
            /\ user' = Null
            /\ storage' = clearAuthData(storage, isBrowser)
            /\ UNCHANGED isLoading
       [] OTHER -> UNCHANGED <<token, user, storage, isLoading>>
  /\ UNCHANGED <<isBrowser, location, deviceId, now, requests, sent, failureCount, flights>>

SessionNext ==
  \/ \E rd \in RandomSuffixes, rc \in RandomSuffixes : PageRequest(rd, rc)
  \/ \E rd \in RandomSuffixes, rc \in RandomSuffixes : login(rd, rc)
  \/ \E rd \in RandomSuffixes, rc \in RandomSuffixes : register(rd, rc)
  \/ \E rd \in RandomSuffixes, rc \in RandomSuffixes : logout(rd, rc)
  \/ SessionSettle
  \/ SessionReturn

SpecSession == SessionInit /\ [][SessionNext]_vars


(***************************************************************************)
(* QueryProvider (src/src/components/providers/QueryProvider.tsx): one     *)
(* query or mutation whose function is an apiRequest call, run by the      *)
(* retryer with the default options of the client.                         *)
(***************************************************************************)
\* a >= n and a < n of JavaScript for a status that is a number or undefined
Ge(a, n) == a.t = "number" /\ a.n >= n
Lt(a, n) == a.t = "number" /\ a.n < n

\* queries.retry
queriesRetry(count, error) ==
  LET status == IF TypeOf(error) = "object" /\ error # Null
                THEN OptGet(Get(error, "response"), "status")
                ELSE Bool(FALSE)
  IN IF TypeOf(status) = "number" /\ status.n >= 400 /\ status.n < 500
     THEN IF status = Num(408) \/ status = Num(429) THEN count < 2 ELSE FALSE
     ELSE count < 3

\* queries.retryDelay, in milliseconds
retryDelay(attemptIndex) ==
  LET d == 1000 * 2 ^ attemptIndex IN IF d < 30000 THEN d ELSE 30000

\* mutations.retry
mutationsRetry(count, error) ==
  LET status == OptGet(OptGet(error, "response"), "status")
  IN IF Ge(status, 400) /\ Lt(status, 500) THEN FALSE ELSE count < 2

\* what the backend and the transport produce for the function of the query
QueryOutcomes ==
  { [kind |-> "fulfilled", value |-> Response(200, body, EmptyObj)] :
      body \in { Obj([success |-> Bool(TRUE), data |-> Arr(<<Num(1), Num(2), Num(3)>>)]),
                 Obj([success |-> Bool(FALSE), message |-> Str("Validation failed"),
                      error |-> Str("INVALID_DATA")]) } }
    \cup { [kind |-> "rejected", value |-> AxiosError(status, body, EmptyObj)] :
             status \in {400, 404, 408, 429, 500, 503},
             body \in { Undefined, Str("Internal server error"),
                        Obj([success |-> Bool(FALSE), message |-> Str("Validation failed"),
                             error |-> Str("INVALID_DATA")]) } }
    \cup { [kind |-> "rejected", value |-> error] : error \in NetworkFailures }

\* a component has mounted a query or is about to run a mutation
QueryInit ==
  /\ isBrowser \in BOOLEAN
  /\ storage \in { [k \in StorageKeys |-> IF k = "grub_device_id" THEN d ELSE Null] :
                     d \in {Null, Str("web_0_stored")} }
  /\ isBrowser \/ \A k \in StorageKeys : storage[k] = Null
  /\ location = "/"
  /\ deviceId = Null
  /\ now = 1
  /\ requests = 0
  /\ pc = "idle"
  /\ sent = Null
  /\ outcome = None
  /\ result = None
  /\ caller \in {"query", "mutation"}
  /\ user = Null
  /\ token = Null
  /\ isLoading = FALSE
  /\ failureCount = 0
  /\ flights = NoFlights

\* the retryer runs the function: first when the query starts, then after
\* each pause
QueryFetch(rndDevice, rndCorrelation) ==
  /\ \/ pc = "idle" /\ requests = 0
     \/ pc = "retrying"
  /\ Dispatch(Undefined, rndDevice, rndCorrelation)
  /\ outcome' = None
  /\ result' = None
  /\ UNCHANGED <<now, caller, user, token, isLoading, failureCount, flights>>

\* the request of the function settles
QuerySettle ==
  /\ pc = "pending"
  /\ \E settled \in QueryOutcomes : Settle(settled)

\* retry(failureCount, error) of the options that apply to the caller
shouldRetry ==
  IF caller = "query"
  THEN queriesRetry(failureCount, result.value)
  ELSE mutationsRetry(failureCount, result.value)

\* the function resolved: the query or mutation succeeds
QueryResolve ==
  /\ pc = "settled"
  /\ result.kind = "resolve"
  /\ pc' = "success"
  /\ UNCHANGED <<isBrowser, storage, location, deviceId, now, requests, sent, outcome,
                 result, caller, user, token, isLoading, failureCount, flights>>

\* the function rejected and retry says yes: the failure is counted and the
\* retryer pauses for retryDelay before it runs the function again
QueryRetry ==
  /\ pc = "settled"
  /\ result.kind = "reject"
  /\ failureCount < MaxFailures
  /\ shouldRetry
  /\ failureCount' = failureCount + 1
  /\ now' = now + retryDelay(failureCount) \div 1000
  /\ pc' = "retrying"
  /\ UNCHANGED <<isBrowser, storage, location, deviceId, requests, sent, outcome,
                 result, caller, user, token, isLoading, flights>>

\* the function rejected and retry says no: the query or mutation fails with
\* the error of apiRequest
QueryFail ==
  /\ pc = "settled"
  /\ result.kind = "reject"
  /\ ~shouldRetry
  /\ pc' = "error"
  /\ UNCHANGED <<isBrowser, storage, location, deviceId, now, requests, sent, outcome,
                 result, caller, user, token, isLoading, failureCount, flights>>

QueryNext ==
  \/ \E rd \in RandomSuffixes, rc \in RandomSuffixes : QueryFetch(rd, rc)
  \/ QuerySettle
  \/ QueryResolve
  \/ QueryRetry
  \/ QueryFail

SpecQuery == QueryInit /\ [][QueryNext]_vars


(***************************************************************************)
(* AuthProvider with overlapping calls: the mount effect initAuth, login,  *)
(* register, logout and refreshAuth each await one API request, and a      *)
(* request may settle while others are in flight.  One step is what runs    *)
(* between two awaits: the response interceptor, the rest of apiRequest and *)
(* the continuation of the function that awaited it.                        *)
(***************************************************************************)
\* a user with a role
AuthUser(role) == Obj([id |-> Str("u1"), role |-> Str(role)])

\* the values whose JSON text local storage may hold
JsonValues == {AuthUser(role) : role \in {"admin", "distributor", "customer"}}
                \cup {Null, Bool(TRUE)}

\* JSON.parse(text): the value with that text, or a SyntaxError thrown
JsonParse(text) ==
  IF \E v \in JsonValues : JsonText(v) = text
  THEN Resolve(CHOOSE v \in JsonValues : JsonText(v) = text)
  ELSE Throw(Obj([name |-> Str("SyntaxError"),
                  message |-> Str("Unexpected token in JSON")]))

\* getStoredToken
getStoredToken(store, browser) == IF ~browser THEN Null ELSE store[AUTH_TOKEN_KEY]

\* getStoredUser: the parsed user, null, or the SyntaxError of JSON.parse
getStoredUser(store, browser) ==
  IF ~browser THEN Resolve(Null)
  ELSE IF Truthy(store[USER_DATA_KEY]) THEN JsonParse(store[USER_DATA_KEY].s)
  ELSE Resolve(Null)

\* a rejected credential and a network failure
AuthFailures ==
  { [kind |-> "rejected",
     value |-> AxiosError(401, Obj([success |-> Bool(FALSE),
                                    message |-> Str("Validation failed"),
                                    error |-> Str("INVALID_DATA")]), EmptyObj)] }
    \cup { [kind |-> "rejected", value |-> error] :
             error \in {e \in NetworkFailures : Get(e, "code") = Str("ERR_NETWORK")} }

\* how the request of login settles
LoginOutcomes ==
  { [kind |-> "fulfilled",
     value |-> Response(200, Obj([success |-> Bool(TRUE),
                                  data |-> Obj([token |-> Str("token-2"),
                                                user |-> AuthUser(role)])]), EmptyObj)] :
      role \in {"admin", "distributor"} }
    \cup AuthFailures

\* how the request of getProfile settles
ProfileOutcomes ==
  { [kind |-> "fulfilled",
     value |-> Response(200, Obj([success |-> Bool(TRUE),
                                  data |-> AuthUser("customer")]), EmptyObj)] }
    \cup AuthFailures

\* how the request of logout settles
LogoutOutcomes ==
  { [kind |-> "fulfilled",
     value |-> Response(200, Obj([success |-> Bool(TRUE),
                                  message |-> Str("Created")]), EmptyObj)] }
    \cup AuthFailures

\* the sessions a page may find in storage: none, one that setAuthData wrote
\* for a login, one that it wrote for a response without token and user
StoredSessions ==
  { [tok |-> Null, usr |-> Null],
    [tok |-> Str("token-1"), usr |-> JsonStringify(StoredUser)],
    [tok |-> Str(JsToString(Undefined)), usr |-> Str(JsToString(JsonStringify(Undefined)))] }

\* the page has loaded in a browser and AuthProvider has rendered once: its
\* effect has not run yet
AuthInit ==
  /\ isBrowser = TRUE
  /\ storage \in { [k \in StorageKeys |->
                       CASE k = "grub_device_id" -> d
                         [] k = AUTH_TOKEN_KEY -> session.tok
                         [] k = USER_DATA_KEY -> session.usr
                         [] OTHER -> Null] :
                     d \in {Null, Str("web_0_stored")}, session \in StoredSessions }
  /\ location = "/"
  /\ deviceId = Null
  /\ now = 1
  /\ requests = 0
  /\ pc = "idle"
  /\ sent = Null
  /\ outcome = None
  /\ result = None
  /\ caller = "page"
  /\ user = Null
  /\ token = Null
  /\ isLoading = TRUE
  /\ failureCount = 0
  /\ flights = NoFlights

\* the storage after the request interceptor has run for a new request
DispatchedStorage(rnd) == getDeviceId(deviceId, storage, isBrowser, now, rnd).storage

\* a request of AuthProvider is handed to the transport
AuthDispatch(rnd) ==
  /\ deviceId' = getDeviceId(deviceId, storage, isBrowser, now, rnd).deviceId
  /\ requests' = requests + 1

\* what a settled request leaves once the response interceptor and apiRequest
\* have run: the result of apiRequest, the storage and the location
AfterSettle(settled) ==
  IF settled.kind = "fulfilled"
  THEN [result |-> apiRequest(settled, now + 1), storage |-> storage, location |-> location]
  ELSE [result |-> apiRequest([kind |-> "rejected",
                               value |-> responseErrorInterceptor(settled.value)], now + 1),
        storage |-> responseErrorStorage(settled.value, storage, isBrowser),
        location |-> responseErrorLocation(settled.value, location, isBrowser)]

\* the calls in flight are marked: a logout has completed meanwhile
Overtake(f) ==
  [op \in AuthOps |->
     IF f[op].pc \in {"pending", "loggingOut"}
     THEN [f[op] EXCEPT !.overtaken = TRUE]
     ELSE f[op]]

\* initAuth, up to `await authApi.getProfile()` or, without a stored session,
\* to its end
StartInitAuth(rnd) ==
  /\ flights["initAuth"].pc = "idle"
  /\ LET storedToken == getStoredToken(storage, isBrowser)
         storedUser == getStoredUser(storage, isBrowser)
     IN IF storedUser.kind = "throw"
        THEN /\ storage' = clearAuthData(storage, isBrowser)
             /\ isLoading' = FALSE
             /\ flights' = [flights EXCEPT !["initAuth"] = Flight("resolved", "none", FALSE)]
             /\ UNCHANGED <<token, user, deviceId, requests>>
        ELSE IF Truthy(storedToken) /\ Truthy(storedUser.value)
        THEN /\ token' = storedToken
             /\ user' = storedUser.value
             /\ AuthDispatch(rnd)
             /\ storage' = DispatchedStorage(rnd)
             /\ flights' = [flights EXCEPT !["initAuth"] = Flight("pending", "none", FALSE)]
             /\ UNCHANGED isLoading
        ELSE /\ isLoading' = FALSE
             /\ flights' = [flights EXCEPT !["initAuth"] = Flight("resolved", "none", FALSE)]
             /\ UNCHANGED <<token, user, storage, deviceId, requests>>
  /\ UNCHANGED <<isBrowser, location, now, pc, sent, outcome, result, caller, failureCount>>

\* initAuth after its await: the profile replaces the user, or the session is
\* cleared; isLoading becomes false
VerifySettled ==
  /\ flights["initAuth"].pc = "pending"
  /\ \E settled \in ProfileOutcomes :
       LET a == AfterSettle(settled)
       IN /\ IF a.result.kind = "resolve"
             THEN /\ user' = a.result.value
                  /\ storage' = a.storage
                  /\ UNCHANGED token
             ELSE /\ storage' = clearAuthData(a.storage, isBrowser)
                  /\ token' = Null
                  /\ user' = Null
          /\ location' = a.location
          /\ flights' = [flights EXCEPT !["initAuth"] =
                           Flight("resolved", settled.kind, @.overtaken)]
  /\ isLoading' = FALSE
  /\ now' = now + 1
  /\ UNCHANGED <<isBrowser, deviceId, requests, pc, sent, outcome, result, caller,
                 failureCount>>

\* login, up to its await
StartSignIn(op, rnd) ==
  /\ flights["initAuth"].pc # "idle"
  /\ isLoading' = TRUE
  /\ AuthDispatch(rnd)
  /\ storage' = DispatchedStorage(rnd)
  /\ flights' = [flights EXCEPT ![op] = Flight("pending", "none", FALSE)]
  /\ UNCHANGED <<isBrowser, location, now, pc, sent, outcome, result, caller, failureCount,
                 user, token>>

\* login after its await: the session of the response is set and
\* stored (reading response.token of null throws into the catch), or the error
\* is rethrown; isLoading becomes false
SignInSettled(op) ==
  /\ \E settled \in LoginOutcomes :
       LET a == AfterSettle(settled)
       IN /\ IF a.result.kind = "resolve" /\ ~Nullish(a.result.value)
             THEN /\ token' = Get(a.result.value, "token")
                  /\ user' = Get(a.result.value, "user")
                  /\ storage' = setAuthData(a.storage, isBrowser,
                                            Get(a.result.value, "token"),
                                            Get(a.result.value, "user"))
                  /\ flights' = [flights EXCEPT ![op] =
                                   Flight("resolved", settled.kind, @.overtaken)]
             ELSE /\ storage' = a.storage
                  /\ flights' = [flights EXCEPT ![op] =
                                   Flight("rejected", settled.kind, @.overtaken)]
                  /\ UNCHANGED <<token, user>>
          /\ location' = a.location
  /\ isLoading' = FALSE
  /\ now' = now + 1
  /\ UNCHANGED <<isBrowser, deviceId, requests, pc, sent, outcome, result, caller,
                 failureCount>>

StartLogin(rnd) ==
  /\ flights["login"].pc = "idle"
  /\ StartSignIn("login", rnd)

LoginSettled ==
  /\ flights["login"].pc = "pending"
  /\ SignInSettled("login")

\* logout, up to `await authApi.logout()`
StartLogout(rnd) ==
  /\ flights["initAuth"].pc # "idle"
  /\ flights["logout"].pc = "idle"
  /\ AuthDispatch(rnd)
  /\ storage' = DispatchedStorage(rnd)
  /\ flights' = [flights EXCEPT !["logout"] = Flight("pending", "none", FALSE)]
  /\ UNCHANGED <<isBrowser, location, now, pc, sent, outcome, result, caller, failureCount,
                 user, token, isLoading>>

\* what the finally block of logout leaves
LoggedOut(a) ==
  /\ token' = Null
  /\ user' = Null
  /\ storage' = clearAuthData(a.storage, isBrowser)
  /\ location' = a.location

\* logout after its await: the session is cleared whatever the request did
LogoutSettled ==
  /\ flights["logout"].pc = "pending"
  /\ \E settled \in LogoutOutcomes :
       /\ LoggedOut(AfterSettle(settled))
       /\ flights' = [Overtake(flights) EXCEPT !["logout"] =
                        Flight("resolved", settled.kind, flights["logout"].overtaken)]
  /\ now' = now + 1
  /\ UNCHANGED <<isBrowser, deviceId, requests, pc, sent, outcome, result, caller,
                 failureCount, isLoading>>

\* refreshAuth, up to `await authApi.getProfile()`
StartRefreshAuth(rnd) ==
  /\ flights["initAuth"].pc # "idle"
  /\ flights["refreshAuth"].pc = "idle"
  /\ AuthDispatch(rnd)
  /\ storage' = DispatchedStorage(rnd)
  /\ flights' = [flights EXCEPT !["refreshAuth"] = Flight("pending", "none", FALSE)]
  /\ UNCHANGED <<isBrowser, location, now, pc, sent, outcome, result, caller, failureCount,
                 user, token, isLoading>>

\* refreshAuth after its await: the profile is set and stored, or logout is
\* called and awaited (its request is handed to the transport)
RefreshSettled ==
  /\ flights["refreshAuth"].pc = "pending"
  /\ \E settled \in ProfileOutcomes :
       LET a == AfterSettle(settled)
       IN /\ IF a.result.kind = "resolve"
             THEN /\ user' = a.result.value
                  /\ storage' = IF isBrowser
                                THEN [a.storage EXCEPT ![USER_DATA_KEY] =
                                        Str(JsToString(JsonStringify(a.result.value)))]
                                ELSE a.storage
                  /\ flights' = [flights EXCEPT !["refreshAuth"] =
                                   Flight("resolved", settled.kind, @.overtaken)]
                  /\ UNCHANGED requests
             ELSE /\ storage' = a.storage
                  /\ requests' = requests + 1
                  /\ flights' = [flights EXCEPT !["refreshAuth"] =
                                   Flight("loggingOut", settled.kind, @.overtaken)]
                  /\ UNCHANGED user
          /\ location' = a.location
  /\ now' = now + 1
  /\ UNCHANGED <<isBrowser, deviceId, pc, sent, outcome, result, caller, failureCount,
                 token, isLoading>>

\* the logout that refreshAuth awaits has finished: the session is cleared and
\* refreshAuth rethrows the error of its request
RefreshLogoutSettled ==
  /\ flights["refreshAuth"].pc = "loggingOut"
  /\ \E settled \in LogoutOutcomes :
       /\ LoggedOut(AfterSettle(settled))
       /\ flights' = [Overtake(flights) EXCEPT !["refreshAuth"] =
                        Flight("rejected", flights["refreshAuth"].api,
                               flights["refreshAuth"].overtaken)]
  /\ now' = now + 1
  /\ UNCHANGED <<isBrowser, deviceId, requests, pc, sent, outcome, result, caller,
                 failureCount, isLoading>>

AuthNext ==
  \/ \E rnd \in RandomSuffixes : StartInitAuth(rnd)
  \/ VerifySettled
  \/ \E rnd \in RandomSuffixes : StartLogin(rnd)
  \/ LoginSettled
  \/ \E rnd \in RandomSuffixes : StartLogout(rnd)
  \/ LogoutSettled
  \/ \E rnd \in RandomSuffixes : StartRefreshAuth(rnd)
  \/ RefreshSettled
  \/ RefreshLogoutSettled

SpecAuth == AuthInit /\ [][AuthNext]_vars


(***************************************************************************)
(* What the pages render from the state of AuthProvider.                   *)
(***************************************************************************)
\* isAuthenticated = !!user && !!token
isAuthenticated(usr, tok) == Truthy(usr) /\ Truthy(tok)

\* AuthGuard without the test of isLoading
AuthGuard_NoSpinner(requireAuth, requiredRole, fallback, usr, tok, loading) ==
  IF requireAuth /\ ~isAuthenticated(usr, tok)
  THEN (IF fallback THEN "fallback" ELSE "authRequired")
  ELSE IF Truthy(requiredRole) /\ OptGet(usr, "role") # requiredRole
  THEN (IF fallback THEN "fallback" ELSE "accessDenied")
  ELSE "children"

\* what AuthGuard returns: the spinner, the fallback, the panel "Authentication
\* Required", the panel "Access Denied" or its children; fallback says whether
\* the fallback prop is given
AuthGuard(requireAuth, requiredRole, fallback, usr, tok, loading) ==
  IF loading THEN "spinner"
  ELSE IF requireAuth /\ ~isAuthenticated(usr, tok)
  THEN (IF fallback THEN "fallback" ELSE "authRequired")
  ELSE IF Truthy(requiredRole) /\ OptGet(usr, "role") # requiredRole
  THEN (IF fallback THEN "fallback" ELSE "accessDenied")
  ELSE "children"

\* the values of the requiredRole prop: not given, or a role of User
GuardRoles == {Undefined, Str("admin"), Str("distributor"), Str("customer")}

\* hasAnyRole
hasAnyRole(usr, roles) == IF Truthy(usr) THEN Get(usr, "role") \in roles ELSE FALSE

\* canManageProducts
canManageProducts(usr) == hasAnyRole(usr, {Str("admin"), Str("distributor")})

\* the roles of the Products entry of the navigation
ProductsNavRoles == {Str("admin"), Str("distributor"), Str("staff")}

\* Navigation displays the Products entry
NavigationShowsProducts(usr, tok) ==
  /\ isAuthenticated(usr, tok) /\ Truthy(usr)
  /\ Get(usr, "role") \in ProductsNavRoles

\* what the AuthGuard of the Products page returns
ProductsPageGuard(usr, tok, loading) ==
  AuthGuard(TRUE, Str("distributor"), FALSE, usr, tok, loading)


(***************************************************************************)
(* Vocabulary of the properties.                                           *)
(***************************************************************************)
\* the call has settled, by a transport rejection or by a response
SettledRejected == pc = "settled" /\ outcome.kind = "rejected"
SettledFulfilled == pc = "settled" /\ outcome.kind = "fulfilled"

\* the HTTP status and the body the transport delivered (Undefined when none)
RawStatus ==
  IF outcome.kind = "fulfilled" THEN Get(outcome.value, "status")
  ELSE OptGet(Get(outcome.value, "response"), "status")
RawBody ==
  IF outcome.kind = "fulfilled" THEN Get(outcome.value, "data")
  ELSE OptGet(Get(outcome.value, "response"), "data")

\* the message of the transport error as the catch block receives it
TransportMessage == Get(responseErrorInterceptor(outcome.value), "message")

\* the body is an envelope { success: false, message: M, error: E } with a
\* non-empty string M and a string E
IsFailureEnvelope(body) ==
  /\ HasKey(body, "success") /\ body.f["success"] = Bool(FALSE)
  /\ HasKey(body, "message") /\ body.f["message"].t = "string" /\ body.f["message"].s # ""
  /\ HasKey(body, "error") /\ body.f["error"].t = "string"

\* the body is an envelope { success: true, data: X } with X not undefined
IsDataEnvelope(body) ==
  /\ HasKey(body, "success") /\ body.f["success"] = Bool(TRUE)
  /\ HasKey(body, "data") /\ body.f["data"] # Undefined

\* the value has a message and a timestamp, both non-empty strings
IsNormalizedError(v) ==
  /\ HasKey(v, "message") /\ v.f["message"].t = "string" /\ v.f["message"].s # ""
  /\ HasKey(v, "timestamp") /\ v.f["timestamp"].t = "string" /\ v.f["timestamp"].s # ""

RECURSIVE FirstDefined(_, _)
\* a ?? b ?? ... ?? default over the values of seq
FirstDefined(seq, default) ==
  IF seq = <<>> THEN default
  ELSE IF ~Nullish(Head(seq)) THEN Head(seq)
  ELSE FirstDefined(Tail(seq), default)

RECURSIVE FirstTruthy(_, _)
\* a || b || ... || default over the values of seq
FirstTruthy(seq, default) ==
  IF seq = <<>> THEN default
  ELSE IF Truthy(Head(seq)) THEN Head(seq)
  ELSE FirstTruthy(Tail(seq), default)

\* the message and code fields of a failure body, in the order of their priority
BodyMessages(body) ==
  << Get(body, "message"), Get(body, "error"), Get(body, "errorMessage"), Get(body, "msg") >>
BodyCodes(body) == << Get(body, "code"), Get(body, "errorCode") >>

\* a failure other than 503 whose body is a structured value
StructuredFailure ==
  /\ SettledRejected
  /\ RawStatus # Num(503)
  /\ Truthy(RawBody) /\ TypeOf(RawBody) = "object"

(***************************************************************************)
(* Properties.                                                             *)
(***************************************************************************)

\* C1: every rejection of apiRequest is a value that has both a message and a
\* timestamp field (the NormalizedError shape), on every failure path.
C1_EveryRejectionNormalized ==
  (pc = "settled" /\ result.kind = "reject")
    => (HasKey(result.value, "message") /\ HasKey(result.value, "timestamp"))

\* C2: at every status, 503 included, apiRequest never resolves with the response
\* body itself when that body is an object carrying a success field.
C2_NoRawEnvelope ==
  (pc = "settled" /\ result.kind = "resolve" /\ HasKey(RawBody, "success"))
    => result.value # RawBody

\* C3: at every status at which it is delivered, a body {success:false,
\* message:M, error:E} makes apiRequest reject with message M and code E.
C3_EnvelopeFailureRejects ==
  (pc = "settled" /\ IsFailureEnvelope(RawBody))
    => /\ result.kind = "reject"
       /\ Get(result.value, "message") = RawBody.f["message"]
       /\ Get(result.value, "code") = RawBody.f["error"]

\* C4: every transport failure whose status is not 503 (4xx/5xx with or without
\* a body, network error, timeout, thrown value of unknown shape) makes
\* apiRequest reject: none is turned into a resolved value.
C4_FailureRejects ==
  (SettledRejected /\ RawStatus # Num(503)) => result.kind = "reject"

\* C4 witness: a 500 response with a structured body has been rejected.
C4_Witness ==
  /\ SettledRejected
  /\ RawStatus = Num(500)
  /\ Truthy(RawBody) /\ TypeOf(RawBody) = "object"
  /\ result.kind = "reject"

\* C5: a non-error response with body {success:true, data:X}, X any value other
\* than undefined, makes apiRequest resolve with exactly X.
C5_RoundTrip ==
  (SettledFulfilled /\ IsDataEnvelope(RawBody)) => result = Resolve(RawBody.f["data"])

\* C5 witness: the falsy payload false has come back as false.
C5_Witness ==
  /\ SettledFulfilled
  /\ IsDataEnvelope(RawBody)
  /\ RawBody.f["data"] = Bool(FALSE)
  /\ result = Resolve(Bool(FALSE))

\* C6: the message of every error rejected by apiRequest is a non-empty string.
C6_MessageNonEmptyString ==
  (pc = "settled" /\ result.kind = "reject")
    => /\ Get(result.value, "message").t = "string"
       /\ Get(result.value, "message").s # ""

\* C7: a 503 response with body {success:true, data:D} resolves with D, and a
\* 503 response with no usable body rejects with the message "Service
\* temporarily unavailable" and a timestamp that is set.
C7_DegradedMode ==
  (SettledRejected /\ RawStatus = Num(503))
    => /\ IsDataEnvelope(RawBody) => result = Resolve(RawBody.f["data"])
       /\ ~Truthy(RawBody) =>
            /\ result.kind = "reject"
            /\ Get(result.value, "message") = Str("Service temporarily unavailable")
            /\ Truthy(Get(result.value, "timestamp"))

\* C8 as stated: for a failure with a structured body the rejected message is the
\* first DEFINED of body.message, body.error, body.errorMessage, body.msg, the
\* transport message, then "API request failed", and the code the first defined
\* of body.code, body.errorCode, body.statusCode.
C8_FirstDefinedWins ==
  (StructuredFailure /\ result.kind = "reject")
    => /\ Get(result.value, "message") =
            FirstDefined(BodyMessages(RawBody) \o <<TransportMessage>>,
                         Str("API request failed"))
       /\ Get(result.value, "code") =
            FirstDefined(BodyCodes(RawBody), Get(RawBody, "statusCode"))

\* C8 as amended: the message is the first TRUTHY of body.message, body.error,
\* body.errorMessage, body.msg, the transport message, then "API request failed";
\* the code is body.code if truthy, else body.errorCode if truthy, else
\* body.statusCode; a defined but falsy field is skipped.
C8_FirstTruthyWins ==
  StructuredFailure
    => /\ result.kind = "reject"
       /\ Get(result.value, "message") =
            FirstTruthy(BodyMessages(RawBody) \o <<TransportMessage>>,
                        Str("API request failed"))
       /\ Get(result.value, "code") =
            FirstTruthy(BodyCodes(RawBody), Get(RawBody, "statusCode"))

\* C8 witness: a body whose message is the empty string and whose error is a text
\* has been rejected with the error text as message.
C8_Witness ==
  /\ StructuredFailure
  /\ Get(RawBody, "message") = Str("")
  /\ Get(RawBody, "error") = Str("error text")
  /\ result.kind = "reject"
  /\ Get(result.value, "message") = Str("error text")

\* C9: a caught value that already has both message and timestamp (an already
\* normalized error) reaches the caller as that same value.
C9_IdempotentReraise ==
  (SettledRejected /\ IsNormalizedError(outcome.value))
    => result = Reject(outcome.value)

\* C10: a bodiless failure tagged ECONNABORTED whose message mentions a timeout
\* is rejected with the message that the server took too long to respond.
C10_TimeoutMessage ==
  ( /\ SettledRejected
    /\ Nullish(Get(outcome.value, "response"))
    /\ IsTimeout(outcome.value) )
    => /\ result.kind = "reject"
       /\ Get(result.value, "message") = Str(TimeoutMessage)

\* C11: a bodiless transport failure tagged ECONNREFUSED is rejected with a
\* message that names the configured base URL and says to check that the
\* server is running.
C11_ConnectionRefused ==
  ( /\ SettledRejected
    /\ Nullish(Get(outcome.value, "response"))
    /\ Get(outcome.value, "code") = Str("ECONNREFUSED") )
    => /\ result.kind = "reject"
       /\ Get(result.value, "message").t = "string"
       /\ Includes(Get(result.value, "message").s, API_BASE_URL)
       /\ Includes(Get(result.value, "message").s, "running")

\* C11 witness: the refused connection of axios has been rejected with the
\* connection-refused message.
C11_Witness ==
  /\ SettledRejected
  /\ outcome.value \in NetworkFailures
  /\ Get(outcome.value, "code") = Str("ECONNREFUSED")
  /\ result.kind = "reject"
  /\ Get(result.value, "message") = Str(ConnectionRefusedMessage)

\* C12: at every error status other than 503, a failure whose body is a
\* non-empty string S is rejected with an error whose message is exactly S and
\* whose timestamp is set.
C12_StringBody ==
  ( /\ SettledRejected
    /\ RawStatus.t = "number" /\ RawStatus # Num(503)
    /\ RawBody.t = "string" /\ RawBody.s # "" )
    => /\ result.kind = "reject"
       /\ Get(result.value, "message") = RawBody
       /\ Get(result.value, "timestamp") = Str(ToISOString(now))

\* C12 witness: a 500 response with the body "Internal server error" has been
\* rejected with that text as message.
C12_Witness ==
  /\ SettledRejected
  /\ RawStatus = Num(500)
  /\ RawBody = Str("Internal server error")
  /\ result.kind = "reject"
  /\ Get(result.value, "message") = Str("Internal server error")
  /\ Truthy(Get(result.value, "timestamp"))

\* C13: a non-error response whose body is an envelope with a truthy success
\* and no data key resolves with the boolean true, whatever other fields the
\* envelope carries.
C13_SuccessWithoutData ==
  ( /\ SettledFulfilled
    /\ IsEnvelope(RawBody)
    /\ Truthy(Get(RawBody, "success"))
    /\ ~HasKey(RawBody, "data") )
    => result = Resolve(Bool(TRUE))

\* C13 witness: the envelope {success: true, message: "Created"} has resolved
\* with true.
C13_Witness ==
  /\ SettledFulfilled
  /\ RawBody = Obj([success |-> Bool(TRUE), message |-> Str("Created")])
  /\ result = Resolve(Bool(TRUE))

\* C14: a non-error response whose body is neither null nor absent and has no
\* success key resolves with that body, unchanged.
C14_BareBodyVerbatim ==
  ( /\ SettledFulfilled
    /\ ~Nullish(RawBody)
    /\ ~HasKey(RawBody, "success") )
    => result = Resolve(RawBody)

\* C14 witness: the health payload has resolved as it was delivered.
C14_Witness ==
  /\ SettledFulfilled
  /\ RawBody = Obj([status |-> Str("healthy"), uptime |-> Num(123)])
  /\ result.kind = "resolve"
  /\ Get(result.value, "status") = Str("healthy")
  /\ Get(result.value, "uptime") = Num(123)

\* C15: a non-error response whose body is null or absent resolves with the
\* boolean true: it neither rejects nor resolves with null or undefined.
C15_EmptyBodyResolvesTrue ==
  (SettledFulfilled /\ Nullish(RawBody)) => result = Resolve(Bool(TRUE))

\* C15 witness: a response with the body null has resolved with true.
C15_Witness ==
  /\ SettledFulfilled
  /\ RawBody = Null
  /\ result = Resolve(Bool(TRUE))

\* C19: when a 429 response carries an x-ratelimit-reset header, the error the
\* caller of apiRequest receives has a message that contains the hint "Rate
\* limit exceeded. Try again at <time>", whether the body of the response is absent, a string
\* or a structured value with a message of its own.
C19_RateLimitHint ==
  ( /\ SettledRejected
    /\ RawStatus = Num(429)
    /\ Truthy(Get(Get(Get(outcome.value, "response"), "headers"), "x-ratelimit-reset"))
    /\ \/ Nullish(RawBody)
       \/ RawBody.t = "string"
       \/ Get(RawBody, "message").t = "string" )
    => /\ result.kind = "reject"
       /\ Get(result.value, "message").t = "string"
       /\ Includes(Get(result.value, "message").s, TransportMessage.s)

\* the status of the answer was 4xx
AnsweredClientError == Ge(RawStatus, 400) /\ Lt(RawStatus, 500)

\* C16: a query whose function is an apiRequest call is not run again after
\* the backend has answered with a 4xx status other than 408 or 429: the
\* retryer never pauses for a retry on such an answer.
C16_QueryNoRetryOnClientError ==
  ( /\ caller = "query"
    /\ outcome.kind = "rejected"
    /\ AnsweredClientError
    /\ RawStatus \notin {Num(408), Num(429)} )
    => pc # "retrying"

\* C17: a mutation whose function is an apiRequest call is never run again
\* after the backend has answered with a 4xx status.
C17_MutationNoRetryOnClientError ==
  ( /\ caller = "mutation"
    /\ outcome.kind = "rejected"
    /\ AnsweredClientError )
    => pc # "retrying"

\* C18: once a response with status 401 has been processed in the browser of a
\* user whose login or registration has stored a session, local storage holds
\* neither the credential nor the user record that AuthProvider persisted, and
\* the location is /auth/login.
C18_SessionTeardown ==
  ( /\ pc = "settled"
    /\ isBrowser
    /\ token.t = "string" /\ user.t = "object"
    /\ outcome.kind = "rejected"
    /\ RawStatus = Num(401) )
    => /\ storage[AUTH_TOKEN_KEY] = Null
       /\ storage[USER_DATA_KEY] = Null
       /\ location = "/auth/login"

\* C20: a request in flight carries an Authorization header if and only if a
\* user credential is held in storage, and the header is then "Bearer "
\* followed by that credential.
C20_BearerIffCredential ==
  pc = "pending"
    => LET headers == Get(sent, "headers")
           held == storage[AUTH_TOKEN_KEY]
       IN /\ HasKey(headers, "Authorization") <=> Truthy(held)
          /\ Truthy(held) =>
               Get(headers, "Authorization") = Str("Bearer " \o JsToString(held))

\* the headers of the request the transport holds
SentHeaders == Get(sent, "headers")

\* a non-empty string
NonEmptyString(v) == v.t = "string" /\ v.s # ""

\* C21: every request handed to the transport, whatever headers the caller
\* supplied, carries an X-Device-ID and an X-Correlation-ID header, both
\* non-empty.
C21_RequiredHeaders ==
  pc = "pending"
    => /\ NonEmptyString(Get(SentHeaders, "X-Device-ID"))
       /\ NonEmptyString(Get(SentHeaders, "X-Correlation-ID"))

\* C21 witness: the second request of the process is in flight with the device
\* identifier of the process and a correlation identifier of this instant.
C21_Witness ==
  /\ pc = "pending"
  /\ requests = 2
  /\ Get(SentHeaders, "X-Device-ID") = deviceId
  /\ NonEmptyString(deviceId)
  /\ Get(SentHeaders, "X-Correlation-ID") \in
       {Str("web_" \o NatToString(now) \o "_" \o rnd) : rnd \in RandomSuffixes}

\* C22: the device identifier is stable. Once the process has an identifier it
\* never changes, every request carries it, storage is written only when it
\* holds no identifier and the process has none, and in the browser the
\* identifier of the requests is the stored one.
C22_StableDeviceId ==
  [][ /\ Truthy(deviceId) => deviceId' = deviceId
      /\ pc' = "pending" => Get(Get(sent', "headers"), "X-Device-ID") = deviceId'
      /\ storage'["grub_device_id"] # storage["grub_device_id"]
           => /\ storage["grub_device_id"] = Null
              /\ deviceId = Null
      /\ (pc' = "pending" /\ isBrowser) => storage'["grub_device_id"] = deviceId'
      /\ (pc' = "pending" /\ Truthy(storage["grub_device_id"]))
           => deviceId' = storage["grub_device_id"] ]_vars

\* C22 witness: the second request of a server process is in flight with the
\* identifier generated for the first.
C22_Witness ==
  /\ pc = "pending"
  /\ requests = 2
  /\ ~isBrowser
  /\ now = 2
  /\ deviceId \in {Str("ssr_1_" \o rnd) : rnd \in RandomSuffixes}
  /\ Get(SentHeaders, "X-Device-ID") = deviceId

\* C23: the error thrown in the try block for a non-error response with body
\* {success: false, message: M, error: E} reaches the caller unchanged for
\* every E: message M (or "API request failed"), code E and the timestamp of
\* the throw, also when E is the code of a transport error.
C23_EnvelopeErrorPassesThrough ==
  ( /\ SettledFulfilled
    /\ IsEnvelope(RawBody)
    /\ ~Truthy(Get(RawBody, "success"))
    /\ Get(RawBody, "error").t = "string" )
    => result = Reject(EnvelopeError(RawBody, now))

\* a call of AuthProvider has finished
Done == {"resolved", "rejected"}

\* memory and storage hold no session
SessionCleared ==
  /\ user = Null
  /\ token = Null
  /\ storage[AUTH_TOKEN_KEY] = Null
  /\ storage[USER_DATA_KEY] = Null

\* C24: logout is final. When logout has completed while the profile
\* verification of initAuth or a refreshAuth call was in flight, no login has
\* been made and every call has settled, user and token are null and storage
\* holds neither the token nor the user record.
C24_LogoutFinal ==
  ( /\ flights["logout"].pc = "resolved"
    /\ flights["login"].pc = "idle"
    /\ flights["initAuth"].pc \in Done
    /\ \/ flights["refreshAuth"].pc = "idle"
       \/ flights["refreshAuth"].pc \in Done /\ flights["refreshAuth"].overtaken
    /\ flights["initAuth"].overtaken \/ flights["refreshAuth"].overtaken )
    => SessionCleared

\* C25: a login that has completed successfully while the profile verification
\* of initAuth was in flight is not undone when the verification fails: the
\* step in which it fails leaves token, user and the stored session as the
\* login set them.
C25_LoginNotUndone ==
  [][ ( /\ flights["login"].pc = "resolved"
        /\ flights["logout"].pc = "idle"
        /\ flights["refreshAuth"].pc = "idle"
        /\ flights["initAuth"].pc = "pending"
        /\ flights'["initAuth"].pc = "resolved"
        /\ flights'["initAuth"].api = "rejected" )
      => /\ token' = token
         /\ user' = user
         /\ storage'[AUTH_TOKEN_KEY] = storage[AUTH_TOKEN_KEY]
         /\ storage'[USER_DATA_KEY] = storage[USER_DATA_KEY] ]_vars

\* C26: logout ends resolved with token and user null and both entries removed
\* from storage, whether its request resolved or rejected, and a refreshAuth
\* whose request rejected runs this logout before it rejects.
C26_LogoutAlwaysClears ==
  [][ /\ (flights["logout"].pc = "pending" /\ flights'["logout"].pc # "pending")
           => (flights'["logout"].pc = "resolved" /\ SessionCleared')
      /\ (flights["refreshAuth"].pc = "pending" /\ flights'["refreshAuth"].api = "rejected")
           => flights'["refreshAuth"].pc = "loggingOut"
      /\ (flights["refreshAuth"].pc = "loggingOut" /\ flights'["refreshAuth"].pc # "loggingOut")
           => (flights'["refreshAuth"].pc = "rejected" /\ SessionCleared')
      /\ (flights["refreshAuth"].pc # "rejected" /\ flights'["refreshAuth"].pc = "rejected")
           => flights["refreshAuth"].pc = "loggingOut" ]_vars

\* C26 witness: a logout whose request rejected and a refreshAuth that failed
\* have both finished, and no session is left.
C26_Witness ==
  /\ flights["logout"].pc = "resolved"
  /\ flights["logout"].api = "rejected"
  /\ flights["refreshAuth"].pc = "rejected"
  /\ flights["initAuth"].pc = "resolved"
  /\ flights["initAuth"].api = "fulfilled"
  /\ SessionCleared

\* C27: a login or register call whose request rejects leaves token, user and
\* the stored session as they were (as an earlier login set them, or empty),
\* and after every login or register call isLoading is false.
C27_FailedLoginFrame ==
  [][ /\ ( /\ caller \in {"login", "register"}
           /\ token.t = "string" /\ user.t = "object"
           /\ pc = "pending" /\ pc' = "settled"
           /\ result'.kind = "reject" )
           => /\ token' = token
              /\ user' = user
              /\ storage'[AUTH_TOKEN_KEY] = storage[AUTH_TOKEN_KEY]
              /\ storage'[USER_DATA_KEY] = storage[USER_DATA_KEY]
      /\ ( /\ caller \in {"login", "register"}
           /\ pc = "settled" /\ pc' = "idle" )
           => /\ isLoading' = FALSE
              /\ result.kind = "reject" =>
                   /\ token' = token
                   /\ user' = user
                   /\ storage'[AUTH_TOKEN_KEY] = storage[AUTH_TOKEN_KEY]
                   /\ storage'[USER_DATA_KEY] = storage[USER_DATA_KEY] ]_vars

\* C28: retrying is bounded. A query is attempted at most 4 times and a
\* mutation at most 3 times, and a query is not retried more than twice when
\* the answer is 408 or 429.
C28_BoundedRetries ==
  /\ caller = "query" => requests <= 4 /\ failureCount <= 3
  /\ caller = "mutation" => requests <= 3 /\ failureCount <= 2
  /\ ( /\ caller = "query"
       /\ pc = "retrying"
       /\ outcome.kind = "rejected"
       /\ RawStatus \in {Num(408), Num(429)} )
       => failureCount <= 2

\* C29: AuthGuard renders its children only when isLoading is false, user and
\* token are both set if requireAuth, and the role of the user is requiredRole
\* if one is given; in every other state it renders the spinner, the fallback
\* or a panel.
C29_GuardAdmits ==
  \A requireAuth \in BOOLEAN, requiredRole \in GuardRoles, fallback \in BOOLEAN :
    LET rendered == AuthGuard(requireAuth, requiredRole, fallback, user, token, isLoading)
        admissible ==
          /\ ~isLoading
          /\ requireAuth => (~Nullish(user) /\ ~Nullish(token))
          /\ requiredRole # Undefined => OptGet(user, "role") = requiredRole
    IN /\ rendered = "children" => admissible
       /\ ~admissible => rendered \in {"spinner", "fallback", "authRequired", "accessDenied"}

\* C29 witness: the stored session is set in memory while its verification is
\* in flight and isLoading is still true: the guard shows the spinner to a user
\* whose role it would admit.
C29_Witness ==
  /\ isLoading
  /\ flights["initAuth"].pc = "pending"
  /\ isAuthenticated(user, token)
  /\ OptGet(user, "role") = Str("customer")
  /\ AuthGuard(TRUE, Str("customer"), FALSE, user, token, isLoading) = "spinner"

\* C30: every authenticated user whom canManageProducts accepts and to whom
\* Navigation shows the Products entry is not shown Access Denied by the
\* AuthGuard of the Products page.
C30_ProductsRolesConsistent ==
  ( /\ isAuthenticated(user, token)
    /\ canManageProducts(user)
    /\ NavigationShowsProducts(user, token) )
    => ProductsPageGuard(user, token, isLoading) # "accessDenied"

=============================================================================
